---- MODULE Spec2Model ----
(***************************************************************************)
(* A model of terminal::renderer::atlas::TextureAtlasAllocator             *)
(* (src/terminal_renderer/Atlas.cpp): the shelf-packing cursor, the        *)
(* exact-size free map `discarded_`, the live records `textureInfos_` and  *)
(* the notifications sent to the AtlasBackend.                             *)
(*                                                                         *)
(* A TextureInfo is modelled by the fields the allocator itself reads      *)
(* back (atlas, x, y, z, width, height).  The target size, the normalised  *)
(* coordinates, the user tag, the pixel format and the pixel buffer are    *)
(* carried through unread and are left out.                                *)
(*                                                                         *)
(* release() identifies a record by the address of its node in             *)
(* textureInfos_.  Addresses are modelled by what they decide: a node's    *)
(* `aliased` field says that its address is one an erased node has had,    *)
(* so that a reference a caller kept to the erased record now compares     *)
(* equal to it; `dangling` counts the erased nodes' addresses no live node *)
(* has taken.                                                              *)
(***************************************************************************)
EXTENDS Integers, Sequences, FiniteSets, Bags

\* ------------------------------------------------------------- bounds
MaxPage == 3          \* page width and height the constructor is called with
MaxLayers == 2        \* constructor calls have depth * maxInstances up to this
BaseId == 1           \* instance base id the constructor is called with
MaxCalls == 5         \* insert, release and clear calls followed before teardown
MaxDangling == 1      \* references to released records the caller keeps

\* The two gap constants are set in Atlas.h; both paddings are followed.
GapValues == {0, 1}

InstanceIds == 0..(BaseId + MaxLayers)
NoRec == [atlas |-> -1]

VARIABLES
    instanceBaseId_, maxInstances_, depth_, width_, height_,
    HorizontalGap, VerticalGap,
    currentInstanceId_, currentZ_, currentX_, currentY_,
    maxTextureHeightInCurrentRow_,
    textureInfos_,   \* bag of live TextureInfo records
    discarded_,      \* Size -> sequence of Offsets, back of the vector last
    created,         \* instance id -> number of createAtlas notifications
    destroyed,       \* instance id -> number of destroyAtlas notifications
    alive,           \* FALSE once the destructor has run
    calls,           \* number of insert, release and clear calls so far
    dangling,        \* kept references to erased nodes whose address is not taken again
    rowHeights,      \* heights of the images the cursor has placed in the current row
    last             \* the last call, its arguments and what it returned

config == <<instanceBaseId_, maxInstances_, depth_, width_, height_,
            HorizontalGap, VerticalGap>>
cursor == <<currentInstanceId_, currentZ_, currentX_, currentY_,
            maxTextureHeightInCurrentRow_>>
backend == <<created, destroyed>>
vars == <<config, cursor, textureInfos_, discarded_, backend, alive, calls, dangling,
          rowHeights, last>>

Max(a, b) == IF a > b THEN a ELSE b

Size(w, h) == <<w, h>>
Offset(i, x, y, z) == [i |-> i, x |-> x, y |-> y, z |-> z]
OffsetOf(ti) == Offset(ti.atlas, ti.x, ti.y, ti.z)

\* ------------------------------------------------ getOffsetAndAdvance
FitsInRow_Inclusive(x, w) == x + HorizontalGap + w <= width_

FitsInRow(x, w) == x + HorizontalGap + w < width_

NextRowY_IgnoresRowHeight(y, maxH) == y + VerticalGap

NextRowY(y, maxH) == y + maxH + VerticalGap

FitsInPage(y, h) == y + h < height_

HasLayer(z) == z < depth_

HasNextInstance_OffByOne(i) == i + 1 <= instanceBaseId_ + maxInstances_

HasNextInstance(i) == i + 1 < instanceBaseId_ + maxInstances_

FullCursor_KeepsRowHeight ==
    [x |-> width_, y |-> height_, z |-> depth_, maxH |-> maxTextureHeightInCurrentRow_]

FullCursor_NotPinned == [x |-> 0, y |-> 0, z |-> 0, maxH |-> 0]

FullCursor == [x |-> width_, y |-> height_, z |-> depth_, maxH |-> 0]

\* the cursor as insert leaves it once no instance is left
IsFull == currentX_ = width_ /\ currentY_ = height_ /\ currentZ_ = depth_

GetOffsetAndAdvance(w, h) ==
    LET wrapRow   == ~FitsInRow(currentX_, w)
        x1        == IF wrapRow THEN 0 ELSE currentX_
        y1        == IF wrapRow
                     THEN NextRowY(currentY_, maxTextureHeightInCurrentRow_)
                     ELSE currentY_
        wrapLayer == wrapRow /\ ~FitsInPage(y1, h)
        y2        == IF wrapLayer THEN 0 ELSE y1
        m2        == IF wrapLayer THEN 0 ELSE maxTextureHeightInCurrentRow_
        z1        == IF wrapLayer THEN currentZ_ + 1 ELSE currentZ_
        wrapInst  == wrapLayer /\ ~HasLayer(z1)
        z2        == IF wrapInst THEN 0 ELSE z1
        full      == wrapInst /\ ~HasNextInstance(currentInstanceId_)
        i1        == IF wrapInst THEN currentInstanceId_ + 1 ELSE currentInstanceId_
    IN  IF full
        THEN [ok |-> FALSE, notify |-> FALSE, i |-> currentInstanceId_,
              x |-> FullCursor.x, y |-> FullCursor.y, z |-> FullCursor.z,
              maxH |-> FullCursor.maxH]
        ELSE [ok |-> TRUE, notify |-> wrapInst,
              result |-> Offset(i1, x1, y2, z2),
              i |-> i1, x |-> x1 + w + HorizontalGap, y |-> y2, z |-> z2,
              maxH |-> Max(m2, h)]

\* ------------------------------------------------------------ backend
NotifyCreateAtlas(log, id) == [log EXCEPT ![id] = @ + 1]

NoneNotified == [id \in InstanceIds |-> 0]

DestroyedRange == [id \in InstanceIds |->
                     IF instanceBaseId_ <= id /\ id <= currentInstanceId_ THEN 1 ELSE 0]

\* ------------------------------------------------------- constructor
Init ==
    /\ instanceBaseId_ = BaseId
    /\ maxInstances_ \in 1..MaxLayers
    /\ depth_ \in 1..MaxLayers
    /\ depth_ * maxInstances_ <= MaxLayers
    /\ width_ = MaxPage
    /\ height_ = MaxPage
    /\ HorizontalGap \in GapValues
    /\ VerticalGap \in GapValues
    /\ currentInstanceId_ = instanceBaseId_
    /\ currentZ_ = 0
    /\ currentX_ = 0
    /\ currentY_ = 0
    /\ maxTextureHeightInCurrentRow_ = 0
    /\ textureInfos_ = EmptyBag
    /\ discarded_ = <<>>
    /\ created = NotifyCreateAtlas(NoneNotified, instanceBaseId_)
    /\ destroyed = NoneNotified
    /\ alive = TRUE
    /\ calls = 0
    /\ dangling = 0
    /\ rowHeights = {}
    /\ last = [op |-> "construct", upload |-> 0]

\* --------------------------------------------------------------- clear
ClearedCursor_KeepsRowHeight ==
    [i |-> instanceBaseId_, z |-> 0, x |-> 0, y |-> 0,
     maxH |-> maxTextureHeightInCurrentRow_]

ClearedCursor == [i |-> instanceBaseId_, z |-> 0, x |-> 0, y |-> 0, maxH |-> 0]

Clear ==
    /\ alive
    /\ calls < MaxCalls
    /\ calls' = calls + 1
    /\ currentInstanceId_' = ClearedCursor.i
    /\ currentZ_' = ClearedCursor.z
    /\ currentX_' = ClearedCursor.x
    /\ currentY_' = ClearedCursor.y
    /\ maxTextureHeightInCurrentRow_' = ClearedCursor.maxH
    /\ discarded_' = <<>>
    /\ rowHeights' = {}
    /\ last' = [op |-> "clear", upload |-> 0]
    /\ UNCHANGED <<config, textureInfos_, backend, alive, dangling>>

\* ---------------------------------------------------- appendTextureInfo
\* The node emplace_back allocates has an address no live node has: one an
\* erased node has had (while such an address is left), or one never used.
NodeAliased == {FALSE} \cup (IF dangling > 0 THEN {TRUE} ELSE {})

TextureInfoAt(al, w, h, o) ==
    [atlas |-> o.i, x |-> o.x, y |-> o.y, z |-> o.z,
     width |-> w, height |-> h, aliased |-> al]

AppendTextureInfo_Replaces(ti) == SetToBag({ti})

AppendTextureInfo(ti) == textureInfos_ (+) SetToBag({ti})

Taken(al) == IF al THEN dangling - 1 ELSE dangling

\* -------------------------------------------------------------- insert
HasDiscarded(w, h) ==
    /\ Size(w, h) \in DOMAIN discarded_
    /\ discarded_[Size(w, h)] # <<>>

Back_Front(s) == s[1]

Back(s) == s[Len(s)]

PopBack(s) == SubSeq(s, 1, Len(s) - 1)

PopDiscarded_NoPop(key) == discarded_

PopDiscarded_KeepsEmptyEntry(key) == [discarded_ EXCEPT ![key] = PopBack(@)]

\* pop_back, then erase the map entry when the vector became empty
PopDiscarded(key) ==
    IF PopBack(discarded_[key]) = <<>>
    THEN [k \in DOMAIN discarded_ \ {key} |-> discarded_[k]]
    ELSE [discarded_ EXCEPT ![key] = PopBack(@)]

TooLarge_Inclusive(w, h) == h >= height_ \/ w >= width_

TooLarge_HeightOnly(w, h) == h > height_

TooLarge(w, h) == h > height_ \/ w > width_

\* what the caller of insert sees: the record returned (NoRec for nullptr), and
\* the uploadTexture notifications sent with the record each one refers to
Called(w, h, res, info) ==
    [op |-> "insert", w |-> w, h |-> h, wasFull |-> IsFull, res |-> res,
     ret |-> info, upload |-> IF info = NoRec THEN 0 ELSE 1, target |-> info]

InsertReuse(w, h, al) ==
    LET info == TextureInfoAt(al, w, h, Back(discarded_[Size(w, h)]))
    IN  /\ textureInfos_' = AppendTextureInfo(info)
        /\ discarded_' = PopDiscarded(Size(w, h))
        /\ dangling' = Taken(al)
        /\ last' = Called(w, h, "reused", info)
        /\ UNCHANGED <<cursor, backend, rowHeights>>

InsertTooLarge(w, h) ==
    /\ last' = Called(w, h, "toolarge", NoRec)
    /\ UNCHANGED <<cursor, textureInfos_, discarded_, backend, dangling, rowHeights>>

InsertAdvance(w, h, al) ==
    LET adv  == GetOffsetAndAdvance(w, h)
        info == TextureInfoAt(al, w, h, adv.result)
    IN  /\ currentInstanceId_' = adv.i
        /\ currentZ_' = adv.z
        /\ currentX_' = adv.x
        /\ currentY_' = adv.y
        /\ maxTextureHeightInCurrentRow_' = adv.maxH
        /\ IF adv.notify
           THEN created' = NotifyCreateAtlas(created, adv.i)
           ELSE created' = created
        /\ IF adv.ok
           THEN /\ textureInfos_' = AppendTextureInfo(info)
                /\ dangling' = Taken(al)
                /\ rowHeights' = IF adv.result.x = 0 THEN {h} ELSE rowHeights \cup {h}
                /\ last' = Called(w, h, "placed", info)
           ELSE /\ textureInfos_' = textureInfos_
                /\ dangling' = dangling
                /\ rowHeights' = {}
                /\ last' = Called(w, h, "full", NoRec)
        /\ UNCHANGED <<discarded_, destroyed>>

\* the image sizes insert is called with: the smallest, the page's and one more,
\* and on a page taller than wide also a height between the smallest and the page's
Widths == {1, width_, width_ + 1}

Heights == {1, height_ - width_ + 1, height_, height_ + 1}

InsertCall(w, h) ==
    IF HasDiscarded(w, h)
    THEN \E al \in NodeAliased : InsertReuse(w, h, al)
    ELSE IF TooLarge(w, h) THEN InsertTooLarge(w, h)
    ELSE IF GetOffsetAndAdvance(w, h).ok
         THEN \E al \in NodeAliased : InsertAdvance(w, h, al)
         ELSE InsertAdvance(w, h, FALSE)

Insert ==
    /\ alive
    /\ calls < MaxCalls
    /\ calls' = calls + 1
    /\ \E w \in Widths, h \in Heights : InsertCall(w, h)
    /\ UNCHANGED <<config, alive>>

\* insert called, without end, with images no larger than a page
InsertInPage ==
    /\ alive
    /\ \E w \in Widths \cap 1..width_, h \in Heights \cap 1..height_ : InsertCall(w, h)
    /\ UNCHANGED <<config, alive, calls>>

\* ------------------------------------------------------------- release
PushDiscarded_SwappedSize(ti) ==
    LET key == Size(ti.height, ti.width)
    IN  [k \in DOMAIN discarded_ \cup {key} |->
            IF k = key
            THEN Append(IF k \in DOMAIN discarded_ THEN discarded_[k] ELSE <<>>,
                        OffsetOf(ti))
            ELSE discarded_[k]]

PushDiscarded(ti) ==
    LET key == Size(ti.width, ti.height)
    IN  [k \in DOMAIN discarded_ \cup {key} |->
            IF k = key
            THEN Append(IF k \in DOMAIN discarded_ THEN discarded_[k] ELSE <<>>,
                        OffsetOf(ti))
            ELSE discarded_[k]]

Erase(ti) == textureInfos_ (-) SetToBag({ti})

\* release(_info) where find_if stops at `node`, or at end() when node = NoRec.
\* `keeps`: the caller holds a reference to the erased record after the call.
ReleaseCall(handle, node, keeps) ==
    /\ alive
    /\ calls < MaxCalls
    /\ calls' = calls + 1
    /\ IF node # NoRec
       THEN /\ discarded_' = PushDiscarded(node)
            /\ textureInfos_' = Erase(node)
            /\ dangling' = IF keeps THEN dangling + 1 ELSE dangling
            /\ last' = [op |-> "release", handle |-> handle, res |-> "erased",
                        info |-> node, upload |-> 0]
       ELSE /\ UNCHANGED <<discarded_, textureInfos_, dangling>>
            /\ last' = [op |-> "release", handle |-> handle, res |-> "notfound",
                        info |-> node, upload |-> 0]
    /\ UNCHANGED <<config, cursor, backend, alive, rowHeights>>

Live == BagToSet(textureInfos_)

Aliased == {ti \in Live : ti.aliased}

\* The caller passes a record insert returned and drops its reference, or a
\* TextureInfo this allocator never returned, whose address no node has.
Release ==
    \/ \E ti \in Live : ReleaseCall("live", ti, ti.aliased)
    \/ ReleaseCall("foreign", NoRec, FALSE)

\* The caller passes a record insert returned and keeps the reference to it.
ReleaseKeeping ==
    \E ti \in Live :
        /\ ti.aliased \/ Cardinality(Aliased) + dangling < MaxDangling
        /\ ReleaseCall("live", ti, TRUE)

\* The caller passes a reference it kept to a record released before.  The
\* reference dangles: it compares equal to the live node that has taken the
\* erased node's address, and to no node when none has.
ReleaseDangling ==
    \/ \E ti \in Aliased : ReleaseCall("stale", ti, TRUE)
    \/ dangling > 0 /\ ReleaseCall("stale", NoRec, FALSE)

\* ---------------------------------------------------------- destructor
Destroy ==
    /\ alive
    /\ alive' = FALSE
    /\ destroyed' = DestroyedRange
    /\ last' = [op |-> "destroy", upload |-> 0]
    /\ UNCHANGED <<config, cursor, textureInfos_, discarded_, created, calls, dangling,
                   rowHeights>>

Next == Insert \/ Release \/ Clear \/ Destroy

Spec == Init /\ [][Next]_vars

\* The allocator driven without clear()
NextNoClear == Insert \/ Release \/ Destroy

SpecNoClear == Init /\ [][NextNoClear]_vars

\* The allocator driven without clear() by a caller that keeps references to
\* records it has released
NextDangling == Insert \/ Release \/ ReleaseKeeping \/ ReleaseDangling \/ Destroy

SpecDangling == Init /\ [][NextDangling]_vars

\* The allocator with a page taller than wide, driven without clear(): rows of
\* different heights fit one layer
InitTall ==
    /\ instanceBaseId_ = BaseId
    /\ maxInstances_ \in 1..MaxLayers
    /\ depth_ \in 1..MaxLayers
    /\ depth_ * maxInstances_ <= MaxLayers
    /\ width_ = MaxPage
    /\ height_ = MaxPage + 1
    /\ HorizontalGap \in GapValues
    /\ VerticalGap \in GapValues
    /\ currentInstanceId_ = instanceBaseId_
    /\ currentZ_ = 0
    /\ currentX_ = 0
    /\ currentY_ = 0
    /\ maxTextureHeightInCurrentRow_ = 0
    /\ textureInfos_ = EmptyBag
    /\ discarded_ = <<>>
    /\ created = NotifyCreateAtlas(NoneNotified, instanceBaseId_)
    /\ destroyed = NoneNotified
    /\ alive = TRUE
    /\ calls = 0
    /\ dangling = 0
    /\ rowHeights = {}
    /\ last = [op |-> "construct", upload |-> 0]

SpecTall == InitTall /\ [][NextNoClear]_vars

\* The allocator only ever asked to insert: the caller goes on inserting
\* images that fit a page, for as long as it lives
NextFill == InsertInPage

SpecFill == Init /\ [][NextFill]_vars /\ WF_vars(InsertInPage)

\* ===================================================================
\* Properties
\* ===================================================================
Overlap(a, b) ==
    /\ a.atlas = b.atlas
    /\ a.z = b.z
    /\ a.x < b.x + b.width
    /\ b.x < a.x + a.width
    /\ a.y < b.y + b.height
    /\ b.y < a.y + a.height

InsertCalled == last'.op = "insert" /\ calls' = calls + 1

ReleaseCalled == last'.op = "release" /\ calls' = calls + 1

ClearCalled == last'.op = "clear" /\ calls' = calls + 1

InstanceRange == instanceBaseId_..(instanceBaseId_ + maxInstances_ - 1)

RECURSIVE SumCreated(_)
SumCreated(ids) ==
    IF ids = {} THEN 0
    ELSE LET id == CHOOSE id \in ids : TRUE
         IN  created[id] + SumCreated(ids \ {id})

\* the records the step added to textureInfos_
Added == {ti \in BagToSet(textureInfos_') :
            textureInfos_' = textureInfos_ (+) SetToBag({ti})}

\* C1: without clear(), any two distinct live records of the same instance and
\* layer have disjoint rectangles [x, x+width) x [y, y+height).
C1_NonOverlap ==
    /\ \A a \in Live : CopiesIn(a, textureInfos_) = 1
    /\ \A a, b \in Live : a # b => ~Overlap(a, b)

\* C1 witness: three records live in one layer, the last one placed by insert.
C1_Witness ==
    /\ last.op = "insert"
    /\ last.res \in {"placed", "reused"}
    /\ \E a \in Live : Cardinality({b \in Live : b.atlas = a.atlas /\ b.z = a.z}) >= 3

\* C2: every record insert returned lies inside its page: x + width <= pageWidth,
\* y + height <= pageHeight and 0 <= z < layerDepth.
C2_InsidePage ==
    \A ti \in Live :
        /\ ti.x + ti.width <= width_
        /\ ti.y + ti.height <= height_
        /\ 0 <= ti.z /\ ti.z < depth_

\* C3: insert(w,h) with an offset of size (w,h) discarded returns a record at the
\* offset released last for that size, removes that one offset and leaves the
\* cursor alone; release puts the record's offset at the back of its size's list.
C3_ExactFitReuse ==
    [][ /\ (InsertCalled /\ HasDiscarded(last'.w, last'.h)) =>
            LET key  == <<last'.w, last'.h>>
                offs == discarded_[key]
                top  == offs[Len(offs)]
            IN  /\ last'.res = "reused"
                /\ \E ti \in Added :
                      /\ <<ti.atlas, ti.x, ti.y, ti.z>> = <<top.i, top.x, top.y, top.z>>
                      /\ <<ti.width, ti.height>> = key
                /\ \A k \in DOMAIN discarded_ \ {key} :
                      k \in DOMAIN discarded_' /\ discarded_'[k] = discarded_[k]
                /\ DOMAIN discarded_' \subseteq DOMAIN discarded_
                /\ IF Len(offs) = 1
                   THEN key \notin DOMAIN discarded_'
                   ELSE /\ key \in DOMAIN discarded_'
                        /\ discarded_'[key] = SubSeq(offs, 1, Len(offs) - 1)
                /\ UNCHANGED cursor
        /\ (ReleaseCalled /\ last'.res = "erased") =>
            \E ti \in Live :
                /\ textureInfos_ = textureInfos_' (+) SetToBag({ti})
                /\ <<ti.width, ti.height>> \in DOMAIN discarded_'
                /\ LET offs == discarded_'[<<ti.width, ti.height>>]
                   IN  offs[Len(offs)] = OffsetOf(ti)
      ]_vars

\* C3 witness: an insert reused an offset while an older one of that size stays
\* discarded.
C3_Witness ==
    /\ last.op = "insert"
    /\ last.res = "reused"
    /\ <<last.w, last.h>> \in DOMAIN discarded_

\* C4 as claimed: an insert succeeds, or fails leaving cursor and free map as
\* they were.
C4_FailsUntouched ==
    [][ InsertCalled =>
          \/ last'.res \in {"reused", "placed"} /\ last'.upload = 1 /\ Added # {}
          \/ UNCHANGED <<cursor, discarded_>>
      ]_vars

\* C4 as amended: an insert succeeds, or fails leaving free map, live records,
\* current instance id and backend as they were; a too-large image leaves the
\* whole cursor as it was, an exhausted atlas sets the cursor to x = pageWidth,
\* y = pageHeight, layer = layerDepth and the tracked max height to 0.
C4_FailsPinned ==
    [][ InsertCalled =>
          \/ last'.res \in {"reused", "placed"} /\ last'.upload = 1 /\ Added # {}
          \/ /\ last'.res = "toolarge"
             /\ last'.upload = 0
             /\ UNCHANGED <<cursor, discarded_, textureInfos_, backend>>
          \/ /\ last'.res = "full"
             /\ last'.upload = 0
             /\ UNCHANGED <<discarded_, textureInfos_, currentInstanceId_, backend>>
             /\ currentX_' = width_
             /\ currentY_' = height_
             /\ currentZ_' = depth_
             /\ maxTextureHeightInCurrentRow_' = 0
      ]_vars

\* C4 witness: an insert failed on an exhausted atlas whose row had images in it.
C4_Witness ==
    /\ last.op = "insert"
    /\ last.res = "full"
    /\ ~last.wasFull
    /\ Live # {}

\* C5: insert of an image wider or higher than the page fails, notifies nothing
\* and leaves cursor, free map and live records unchanged; no size in the free
\* map is larger than the page.
C5_OversizeRejected ==
    [][ /\ \A k \in DOMAIN discarded_' : k[1] <= width_ /\ k[2] <= height_
        /\ (InsertCalled /\ (last'.w > width_ \/ last'.h > height_)) =>
              /\ last'.res = "toolarge"
              /\ last'.upload = 0
              /\ UNCHANGED <<cursor, discarded_, textureInfos_, backend>>
      ]_vars

\* C5 witness: a too-wide insert was turned down with records live and offsets
\* discarded.
C5_Witness ==
    /\ last.op = "insert"
    /\ last.w > width_
    /\ last.res = "toolarge"
    /\ Live # {}
    /\ DOMAIN discarded_ # {}

\* C6: after destruction, destroyAtlas has been issued exactly once for every
\* instance id createAtlas was issued for, and for no other id.
C6_TeardownComplete ==
    ~alive => \A id \in InstanceIds :
                 destroyed[id] = (IF created[id] > 0 THEN 1 ELSE 0)

\* C7: the current instance id, every id createAtlas was issued for and every
\* record's instance id lie in [baseInstanceId, baseInstanceId + maxInstances).
C7_InstanceInRange ==
    /\ currentInstanceId_ \in InstanceRange
    /\ \A id \in InstanceIds : created[id] > 0 => id \in InstanceRange
    /\ \A ti \in Live : ti.atlas \in InstanceRange

\* C7 witness: the last of several instances is in use and could not take the image.
C7_Witness ==
    /\ maxInstances_ >= 2
    /\ last.op = "insert"
    /\ last.res = "full"
    /\ \E ti \in Live : ti.atlas = instanceBaseId_ + maxInstances_ - 1

\* C8: an insert that fails on the exhausted atlas leaves the cursor at
\* (pageWidth, pageHeight, layerDepth); from then on, until clear(), the cursor
\* stays there, no createAtlas is issued and every insert of a size with no
\* discarded offset fails; with depth = 1 and maxInstances = 1 createAtlas is
\* issued once in all.
C8_ExhaustionSticky ==
    [][ /\ (InsertCalled /\ last'.res = "full") => IsFull'
        /\ (IsFull /\ last'.op # "clear") => IsFull' /\ created' = created
        /\ (IsFull /\ InsertCalled /\ ~HasDiscarded(last'.w, last'.h)) =>
              /\ last'.res \in {"full", "toolarge"}
              /\ last'.upload = 0
              /\ textureInfos_' = textureInfos_
        /\ (depth_ = 1 /\ maxInstances_ = 1) =>
              SumCreated(InstanceIds) = 1 /\ SumCreated(InstanceIds)' = 1
      ]_vars

\* C8 witness: an insert failed on a cursor an earlier failure had pinned, with
\* an offset of another size discarded.
C8_Witness ==
    /\ last.op = "insert"
    /\ last.res = "full"
    /\ last.wasFull
    /\ DOMAIN discarded_ # {}

\* C9: release of a record that is not live (released before, or never returned
\* by this allocator) changes nothing and notifies nothing.
C9_UnknownReleaseNoOp ==
    [][ (ReleaseCalled /\ last'.handle \in {"stale", "foreign"}) =>
            /\ last'.upload = 0
            /\ UNCHANGED <<textureInfos_, discarded_, cursor, backend>>
      ]_vars

\* C10: clear() sets the cursor to (0, 0, layer 0, base instance, max height 0)
\* and empties the free map, keeps the live records and notifies nothing; a
\* second clear() right after it changes nothing.
C10_ClearResets ==
    [][ ClearCalled =>
          /\ cursor' = <<instanceBaseId_, 0, 0, 0, 0>>
          /\ DOMAIN discarded_' = {}
          /\ last'.upload = 0
          /\ UNCHANGED <<textureInfos_, backend>>
          /\ last.op = "clear" => UNCHANGED <<cursor, discarded_>>
      ]_vars

\* C10 witness: clear() was called with a record live and a second instance
\* created.
C10_Witness ==
    /\ last.op = "clear"
    /\ Live # {}
    /\ created[instanceBaseId_ + 1] > 0

\* an insert that found nothing to reuse and placed an image which the current
\* row had no room for
RowWrapped ==
    /\ InsertCalled
    /\ last'.res = "placed"
    /\ ~(currentX_ + HorizontalGap + last'.w < width_)

\* C11, as stated: an image placed by the cursor that did not fit the current
\* row lands at x = 0 with a y strictly greater than that row's y.
C11_RowWrapStrictlyLower ==
    [][ RowWrapped => \A ti \in Added : ti.x = 0 /\ ti.y > currentY_ ]_vars

\* C11, amended: such an image lands at x = 0; it is either placed in the same
\* layer at y = the row's y + the tracked max height + the vertical gap, and
\* then fits below the page's height, or at y = 0 of the next layer or instance.
C11_RowWrap ==
    [][ RowWrapped =>
          \A ti \in Added :
             /\ ti.x = 0
             /\ \/ /\ ti.atlas = currentInstanceId_ /\ ti.z = currentZ_
                   /\ ti.y = currentY_ + maxTextureHeightInCurrentRow_ + VerticalGap
                   /\ ti.y + ti.height < height_
                   /\ (maxTextureHeightInCurrentRow_ + VerticalGap > 0) => ti.y > currentY_
                \/ /\ ti.y = 0
                   /\ \/ ti.atlas = currentInstanceId_ /\ ti.z = currentZ_ + 1
                      \/ ti.atlas = currentInstanceId_ + 1 /\ ti.z = 0
        ]_vars

\* a row wrap inside a layer: the image just placed starts a row below the first
C11_Witness ==
    /\ last.op = "insert" /\ last.res = "placed"
    /\ last.ret.x = 0 /\ last.ret.y > 0
    /\ Cardinality(Live) >= 2

\* the offsets the free map holds for a size, none when it has no entry for it
DiscardedFor(map, key) == IF key \in DOMAIN map THEN map[key] ELSE <<>>

\* C12: release of a live record appends that record's offset to the free-map
\* entry of its exact (width, height), removes that record and no other from the
\* live records, leaves the cursor, the other live records and the other
\* free-map entries as they were, and notifies the backend of nothing.
C12_ReleaseFrame ==
    [][ (ReleaseCalled /\ last'.handle = "live") =>
          LET ti  == last'.info
              key == <<ti.width, ti.height>>
          IN  /\ ti \in Live
              /\ textureInfos_ = textureInfos_' (+) SetToBag({ti})
              /\ DOMAIN discarded_' = DOMAIN discarded_ \cup {key}
              /\ discarded_'[key] =
                    Append(DiscardedFor(discarded_, key),
                           [i |-> ti.atlas, x |-> ti.x, y |-> ti.y, z |-> ti.z])
              /\ \A k \in DOMAIN discarded_ \ {key} : discarded_'[k] = discarded_[k]
              /\ last'.upload = 0
              /\ UNCHANGED <<cursor, backend>>
        ]_vars

\* a live record was released while other records stay live and the free map
\* holds offsets of another size
C12_Witness ==
    /\ last.op = "release" /\ last.handle = "live" /\ last.res = "erased"
    /\ Live # {}
    /\ last.info.width # last.info.height
    /\ Cardinality(DOMAIN discarded_) >= 2

\* C13: also through clear(), the image an insert places overlaps no record
\* that was live before the call, one placed before a clear() and not released
\* included.
C13_NonOverlapThroughClear ==
    [][ InsertCalled => \A ti \in Added : \A b \in Live : ~Overlap(ti, b) ]_vars

RECURSIVE MaxOf(_)
MaxOf(hs) ==
    IF hs = {} THEN 0
    ELSE LET h == CHOOSE h \in hs : TRUE
         IN  Max(h, MaxOf(hs \ {h}))

\* C14: the tracked max height is the largest height among the images the cursor
\* has placed in the current row, and 0 when it has placed none there.
C14_RowMaxHeight == maxTextureHeightInCurrentRow_ = MaxOf(rowHeights)

\* C15: an insert that succeeds, by reuse or by the cursor, adds exactly one
\* record to the live records and sends exactly one uploadTexture, which refers
\* to the record returned; an insert that fails adds no record and sends no
\* uploadTexture.
C15_OneRecordOneUpload ==
    [][ InsertCalled =>
          \/ /\ last'.res \in {"reused", "placed"}
             /\ last'.ret # NoRec
             /\ textureInfos_' = textureInfos_ (+) SetToBag({last'.ret})
             /\ last'.upload = 1
             /\ last'.target = last'.ret
          \/ /\ last'.res \in {"toolarge", "full"}
             /\ last'.ret = NoRec
             /\ textureInfos_' = textureInfos_
             /\ last'.upload = 0
        ]_vars

\* an insert has succeeded while other records were live
C15_Witness ==
    /\ last.op = "insert" /\ last.res \in {"reused", "placed"}
    /\ BagIn(last.ret, textureInfos_)
    /\ BagCardinality(textureInfos_) >= 3

\* C16: the first insert on a fresh allocator of an image with 1 <= width <=
\* page width and 1 <= height <= page height, the page's own width and height
\* included, succeeds, places the image at (x 0, y 0, layer 0) of the base
\* instance and creates no further instance.
C16_FirstInsertAtOrigin ==
    (calls = 1 /\ last.op = "insert" /\ last.w \in 1..width_ /\ last.h \in 1..height_) =>
       /\ last.res = "placed"
       /\ last.ret # NoRec
       /\ last.ret.atlas = instanceBaseId_
       /\ last.ret.x = 0 /\ last.ret.y = 0 /\ last.ret.z = 0
       /\ SumCreated(InstanceIds) = 1

\* C17: over the allocator's lifetime, clear() included, createAtlas is sent at
\* most once for any instance id, so never more than maxInstances times in all.
C17_CreatedOncePerId ==
    /\ \A id \in InstanceIds : created[id] <= 1
    /\ SumCreated(InstanceIds) <= maxInstances_

\* the regions the free map records: each offset with the size it is filed under
\* and its position in that size's vector
FreeRegions ==
    UNION {{[atlas |-> discarded_[k][n].i, x |-> discarded_[k][n].x,
             y |-> discarded_[k][n].y, z |-> discarded_[k][n].z,
             width |-> k[1], height |-> k[2], at |-> n] :
               n \in 1..Len(discarded_[k])} : k \in DOMAIN discarded_}

SameOffset(a, b) == a.atlas = b.atlas /\ a.x = b.x /\ a.y = b.y /\ a.z = b.z

\* C18: without clear(), no offset is recorded twice in the free map, and no
\* region the free map records overlaps the rectangle of a live record of the
\* same instance and layer.
C18_FreeDisjointFromLive ==
    /\ \A r, q \in FreeRegions : SameOffset(r, q) => r = q
    /\ \A r \in FreeRegions : \A ti \in Live : ~Overlap(r, ti)

\* a released region has been reused and is live again, while the free map
\* still records another region of the same layer
C18_Witness ==
    /\ last.op = "insert" /\ last.res = "reused"
    /\ last.ret \in Live
    /\ \E r \in FreeRegions : r.atlas = last.ret.atlas /\ r.z = last.ret.z

\* C20: the free map never holds a size whose vector of offsets is empty.
C20_NoEmptyEntry == \A k \in DOMAIN discarded_ : Len(discarded_[k]) >= 1

\* the last offset of a size has been reused and that size's entry is gone,
\* while the free map keeps the entry of another size
C20_Witness ==
    /\ last.op = "insert" /\ last.res = "reused"
    /\ <<last.w, last.h>> \notin DOMAIN discarded_
    /\ DOMAIN discarded_ # {}

\* C19: with no release and no clear(), a caller that goes on inserting images
\* of 1 <= width <= page width and 1 <= height <= page height gets, from some
\* call on, nothing but failures by exhaustion: only finitely many inserts
\* succeed.
C19_EventuallyExhausted == <>[](last.op = "insert" /\ last.res = "full")

\* an insert has failed by exhaustion after several that succeeded
C19_Witness ==
    /\ last.op = "insert" /\ last.res = "full" /\ ~last.wasFull
    /\ IsFull
    /\ BagCardinality(textureInfos_) >= 2
    /\ DOMAIN discarded_ = {}

====
